---- MODULE Spec2Model ----
(***************************************************************************)
(* Model of app/app.py: the quiz result log (data/results.ndjson), the     *)
(* question catalog (data/questions.json) and the three API handlers       *)
(* POST /api/results, GET /api/admin/users and GET /api/admin/summary.     *)
(***************************************************************************)
EXTENDS Integers, Sequences, FiniteSets, TLC

VARIABLES catalog, log, res, resp, posts

vars == <<catalog, log, res, resp, posts>>

(***************************************************************************)
(* JSON values as Python holds them after json.loads.  A value is a record *)
(* with one field naming its type: null, b(ool), n(umber), s(tring),       *)
(* l(ist) or o(bject, a function from key to value).                       *)
(***************************************************************************)
Null == [null |-> TRUE]
Bool(x) == [b |-> x]
Num(x) == [n |-> x]
Str(x) == [s |-> x]
List(x) == [l |-> x]
Obj(x) == [o |-> x]
EmptyObj == [o |-> <<>>]

IsNull(v) == "null" \in DOMAIN v
IsBool(v) == "b" \in DOMAIN v
IsNum(v) == "n" \in DOMAIN v
IsStr(v) == "s" \in DOMAIN v
IsList(v) == "l" \in DOMAIN v
IsDict(v) == "o" \in DOMAIN v

\* Python truth value of a JSON value (the operand test of `or`, `if`, bool()).
Truthy(v) ==
    IF IsNull(v) THEN FALSE
    ELSE IF IsBool(v) THEN v.b
    ELSE IF IsNum(v) THEN v.n # 0
    ELSE IF IsStr(v) THEN v.s # ""
    ELSE IF IsList(v) THEN Len(v.l) # 0
    ELSE DOMAIN v.o # {}

\* Python `a or b`.
Or(a, b) == IF Truthy(a) THEN a ELSE b

\* dict.get(k, default) and dict.get(k) (default None).
Get(d, k, default) == IF k \in DOMAIN d.o THEN d.o[k] ELSE default
Get0(d, k) == Get(d, k, Null)

\* d[k] = v on a dict.
SetItem(d, k, v) == Obj([x \in DOMAIN d.o \cup {k} |-> IF x = k THEN v ELSE d.o[x]])

\* An int as Python arithmetic sees a JSON number or bool.
IntOf(v) == IF IsBool(v) THEN (IF v.b THEN 1 ELSE 0) ELSE v.n

(***************************************************************************)
(* Strings.  TLC's strings are atomic, so Chars gives the characters of    *)
(* every string the model compares, searches or lower-cases, and Ord the   *)
(* code point of every character.                                          *)
(***************************************************************************)
Chars ==
    ("" :> <<>>) @@
    ("t1" :> <<"t", "1">>) @@ ("t2" :> <<"t", "2">>) @@
    ("t10" :> <<"t", "1", "0">>) @@
    ("q1" :> <<"q", "1">>) @@ ("q2" :> <<"q", "2">>) @@
    ("v1" :> <<"v", "1">>) @@ ("zz" :> <<"z", "z">>) @@
    ("inu" :> <<"i", "n", "u">>) @@ ("dog" :> <<"d", "o", "g">>) @@
    ("Dog" :> <<"D", "o", "g">>) @@ ("DO" :> <<"D", "O">>) @@
    ("neko" :> <<"n", "e", "k", "o">>) @@ ("cat" :> <<"c", "a", "t">>) @@
    ("tori" :> <<"t", "o", "r", "i">>) @@
    ("animals" :> <<"a", "n", "i", "m", "a", "l", "s">>) @@
    ("food" :> <<"f", "o", "o", "d">>) @@
    ("x" :> <<"x">>)

Ord ==
    (" " :> 32) @@ ("0" :> 48) @@ ("1" :> 49) @@ ("2" :> 50) @@
    ("D" :> 68) @@ ("O" :> 79) @@
    ("a" :> 97) @@ ("c" :> 99) @@ ("d" :> 100) @@ ("e" :> 101) @@
    ("f" :> 102) @@ ("g" :> 103) @@ ("i" :> 105) @@ ("k" :> 107) @@
    ("l" :> 108) @@ ("m" :> 109) @@ ("n" :> 110) @@ ("o" :> 111) @@
    ("q" :> 113) @@ ("r" :> 114) @@ ("s" :> 115) @@ ("t" :> 116) @@
    ("u" :> 117) @@ ("v" :> 118) @@ ("x" :> 120) @@ ("z" :> 122)

\* The code points of a string.
CodesTable == [s \in DOMAIN Chars |-> [i \in 1..Len(Chars[s]) |-> Ord[Chars[s][i]]]]
Codes(s) == CodesTable[s]

\* str.lower() on code points (ASCII letters).
LowerCodes(cs) == [i \in 1..Len(cs) |-> IF cs[i] >= 65 /\ cs[i] <= 90 THEN cs[i] + 32 ELSE cs[i]]

\* Python's ordering of tuples and of strings: lexicographic, a proper
\* prefix first.
LexLess(a, b) ==
    \E i \in 1..(Len(b)) :
        /\ \A j \in 1..(i - 1) : j <= Len(a) /\ a[j] = b[j]
        /\ i - 1 <= Len(a)
        /\ (i > Len(a) \/ a[i] < b[i])

LexLeq(a, b) == a = b \/ LexLess(a, b)

\* max(a, b) of two strings: the first argument unless the second is greater.
StrMax(a, b) == IF LexLess(Codes(a), Codes(b)) THEN b ELSE a

\* `needle in hay` on code points (substring test).
Contains(hay, needle) ==
    \E i \in 0..(Len(hay) - Len(needle)) :
        \A j \in 1..Len(needle) : hay[i + j] = needle[j]

(***************************************************************************)
(* Files.  A file either does not exist or holds content.  The log is a    *)
(* sequence of text lines; a line is the JSON text of a value ("json",     *)
(* possibly with surrounding white space), text that is not JSON ("junk")  *)
(* or white space only ("blank").  The catalog is one document.            *)
(***************************************************************************)
NoFile == [exists |-> FALSE, lines |-> <<>>]
NoCatalog == [exists |-> FALSE, ok |-> FALSE, doc |-> Null]
JunkCatalog == [exists |-> TRUE, ok |-> FALSE, doc |-> Null]
CatalogOf(v) == [exists |-> TRUE, ok |-> TRUE, doc |-> v]

JsonLine(v) == [kind |-> "json", doc |-> v, pad |-> FALSE]
PaddedLine(v) == [kind |-> "json", doc |-> v, pad |-> TRUE]
JunkLine == [kind |-> "junk", doc |-> Null, pad |-> FALSE]
BlankLine == [kind |-> "blank", doc |-> Null, pad |-> TRUE]

\* json.dumps(rec, ensure_ascii=False): the one-line JSON text of rec.
dumps(rec) == JsonLine(rec)

\* str.strip(): surrounding white space removed; a blank line becomes "".
strip(line) == [line EXCEPT !.pad = FALSE]

\* with open(path, "w") ...: the file rewritten with the new line alone.
TruncateLine(f, line) == [exists |-> TRUE, lines |-> <<line>>]

\* with open(path, "a") as f: f.write(line + "\n"), after os.makedirs:
\* the file is created when absent and the line goes after the last one.
AppendLine(f, line) == [exists |-> TRUE, lines |-> Append(f.lines, line)]

\* request.get_json(force=True, silent=True): None for an empty or
\* unparsable body, the parsed value otherwise.
get_json(body) == IF "bad" \in DOMAIN body THEN Null ELSE body
BadBody == [bad |-> TRUE]

\* The response of an unhandled exception, and of a handler that returns.
Failed(op, req) == [op |-> op, status |-> 500, req |-> req, body |-> Null]
Returned(op, status, req, body) == [op |-> op, status |-> status, req |-> req, body |-> body]

MaxPosts == 2

(***************************************************************************)
(* POST /api/results                                                       *)
(***************************************************************************)
save_results(body, now) ==
    LET rec == Or(get_json(body), EmptyObj)
    IN  /\ posts < MaxPosts
        /\ IF ~IsDict(rec)
           THEN \* rec["receivedAt"] = ... raises TypeError on a list, str or number
                /\ resp' = Failed("post", body)
                /\ UNCHANGED <<log, posts>>
           ELSE /\ log' = AppendLine(log, dumps(SetItem(rec, "receivedAt", Str(now))))
                /\ resp' = Returned("post", 201, body, Obj([ok |-> Bool(TRUE)]))
                /\ posts' = posts + 1
        /\ UNCHANGED <<catalog, res>>

(***************************************************************************)
(* Question catalog loader                                                 *)
(***************************************************************************)
\* A value a Python dict accepts as a key.
Hashable(v) == ~IsList(v) /\ ~IsDict(v)

\* A value a for loop accepts, and what the loop sees: the elements of a
\* list, the characters of a str, the keys of a dict.
Iterable(v) == IsList(v) \/ IsStr(v) \/ IsDict(v)

RECURSIVE SetToSeq(_)
SetToSeq(S) == IF S = {} THEN <<>> ELSE LET x == CHOOSE y \in S : TRUE IN <<x>> \o SetToSeq(S \ {x})

Iter(v) ==
    IF IsList(v) THEN v.l
    ELSE IF IsStr(v) THEN [i \in 1..Len(Chars[v.s]) |-> Str(Chars[v.s][i])]
    ELSE [i \in 1..Cardinality(DOMAIN v.o) |-> Str(SetToSeq(DOMAIN v.o)[i])]

CatalogEntry(q, type) ==
    Obj([id |-> Get0(q, "id"), jp |-> Get0(q, "jp"), en |-> Get0(q, "en"),
         unit |-> Get0(q, "unit"), type |-> Str(type)])

\* for q in arr: qid = q.get("id"); if qid: qmap[qid] = {...}
RECURSIVE AddEntries(_, _, _)
AddEntries(qmap, arr, type) ==
    IF arr = <<>> THEN qmap
    ELSE LET q == Head(arr)
             qid == Get0(q, "id")
             next == IF Truthy(qid)
                     THEN [k \in DOMAIN qmap \cup {qid} |->
                             IF k = qid THEN CatalogEntry(q, type) ELSE qmap[k]]
                     ELSE qmap
         IN  AddEntries(next, Tail(arr), type)

\* The loop over one catalog array raises: the array is not iterable, an
\* entry has no .get, or an id cannot be a dict key.
catalog_array_raises(arr) ==
    LET xs == Or(arr, List(<<>>))
    IN  \/ ~Iterable(xs)
        \/ \E i \in 1..Len(Iter(xs)) :
              LET q == Iter(xs)[i]
              IN  \/ ~IsDict(q)
                  \/ Truthy(Get0(q, "id")) /\ ~Hashable(Get0(q, "id"))

load_questions_map_raises(file) ==
    /\ file.exists
    /\ file.ok
    /\ \/ ~IsDict(file.doc)
       \/ catalog_array_raises(Get(file.doc, "questions", List(<<>>)))
       \/ catalog_array_raises(Get(file.doc, "vocab", List(<<>>)))

load_questions_map(file) ==
    IF ~file.exists \/ ~file.ok THEN <<>>
    ELSE LET qs == Iter(Or(Get(file.doc, "questions", List(<<>>)), List(<<>>)))
             vs == Iter(Or(Get(file.doc, "vocab", List(<<>>)), List(<<>>)))
         IN  AddEntries(AddEntries(<<>>, qs, "reorder"), vs, "vocab")

(***************************************************************************)
(* Session log reader                                                      *)
(***************************************************************************)
\* The body of the loop, for one line: strip; skip when empty; append
\* json.loads(line), skipping the line when it raises.
ReadLine(raw) ==
    LET line == strip(raw)
    IN  IF line.kind = "blank" THEN <<>>
        ELSE IF line.kind = "junk" THEN <<>>
        ELSE <<line.doc>>

\* for line in f, over lines lo..hi in file order (the range is halved to
\* keep the evaluation shallow on a long log).
RECURSIVE ReadLines(_, _, _)
ReadLines(lines, lo, hi) ==
    IF lo > hi THEN <<>>
    ELSE IF lo = hi THEN ReadLine(lines[lo])
    ELSE LET mid == (lo + hi) \div 2
         IN  ReadLines(lines, lo, mid) \o ReadLines(lines, mid + 1, hi)

\* A reader that gives up at the first line json.loads rejects.
IterResultsAbort(file) ==
    IF ~file.exists THEN <<>>
    ELSE LET bad == {i \in 1..Len(file.lines) : file.lines[i].kind = "junk"}
             stop == IF bad = {} THEN Len(file.lines) + 1
                     ELSE CHOOSE i \in bad : \A j \in bad : i <= j
         IN  ReadLines(file.lines, 1, stop - 1)

iter_results(file) == IF ~file.exists THEN <<>> ELSE ReadLines(file.lines, 1, Len(file.lines))

(***************************************************************************)
(* sorted(): a stable sort on Python keys.  A key is the sequence of       *)
(* integers that orders as the Python key does: the code points of a str,  *)
(* the components of a tuple of ints.                                      *)
(***************************************************************************)
\* The sort key of a string or a number.
KeyOf(v) == IF IsStr(v) THEN Codes(v.s) ELSE <<IntOf(v)>>

\* Python orders str with str and numbers with numbers; `<` between the
\* two raises TypeError (so does any `<` on a dict or None).
Comparable(a, b) ==
    \/ IsStr(a) /\ IsStr(b)
    \/ (IsNum(a) \/ IsBool(a)) /\ (IsNum(b) \/ IsBool(b))

RECURSIVE SortDesc(_)
SortDesc(ks) ==
    IF ks = <<>> THEN <<>>
    ELSE LET keys == {ks[i].k : i \in 1..Len(ks)}
             m == CHOOSE x \in keys : \A y \in keys : LexLeq(y, x)
         IN  SelectSeq(ks, LAMBDA e : e.k = m) \o SortDesc(SelectSeq(ks, LAMBDA e : e.k # m))

RECURSIVE SortAsc(_)
SortAsc(ks) ==
    IF ks = <<>> THEN <<>>
    ELSE LET keys == {ks[i].k : i \in 1..Len(ks)}
             m == CHOOSE x \in keys : \A y \in keys : LexLeq(x, y)
         IN  SelectSeq(ks, LAMBDA e : e.k = m) \o SortAsc(SelectSeq(ks, LAMBDA e : e.k # m))

\* sorted(xs, key=..., reverse=reverse), keys[i] being the key of xs[i]:
\* equal keys keep their order, also when reversed.
sorted(xs, keys, reverse) ==
    LET ks == [i \in 1..Len(xs) |-> [k |-> keys[i], v |-> xs[i]]]
        out == IF reverse THEN SortDesc(ks) ELSE SortAsc(ks)
    IN  [i \in 1..Len(out) |-> out[i].v]

\* xs[:n]
Take(xs, n) == IF Len(xs) <= n THEN xs ELSE SubSeq(xs, 1, n)

\* The position of the row of `key` in a dict kept in insertion order, 0
\* when there is none.
IndexOf(rows, field, key) ==
    IF \E i \in 1..Len(rows) : rows[i][field] = key
    THEN CHOOSE i \in 1..Len(rows) : rows[i][field] = key
    ELSE 0

\* sum(1 for a in ans if a.get("correct"))
CountCorrect(ans) == Cardinality({i \in 1..Len(ans) : Truthy(Get0(ans[i], "correct"))})

(***************************************************************************)
(* GET /api/admin/users                                                    *)
(***************************************************************************)
\* r.get("endedAt") or r.get("receivedAt") or ""
LastOf(r) == Or(Or(Get0(r, "endedAt"), Get0(r, "receivedAt")), Str(""))

\* ans = r.get("answered") or []
\* len(ans) if isinstance(ans, list) else (r.get("total") or 0)
UsersAnswered(r) ==
    LET ans == Or(Get0(r, "answered"), List(<<>>))
    IN  IF IsList(ans) THEN Len(ans.l) ELSE IntOf(Or(Get0(r, "total"), Num(0)))

\* r.get("correct") or sum(1 for a in ans if a.get("correct"))
UsersCorrect(r) ==
    LET ans == Or(Get0(r, "answered"), List(<<>>))
    IN  IF Truthy(Get0(r, "correct")) THEN IntOf(Get0(r, "correct"))
        ELSE CountCorrect(Iter(ans))

\* The body of the loop of admin_users raises on session r.
users_session_raises(r) ==
    \/ ~IsDict(r)
    \/ LET u == Or(Get0(r, "user"), Str("guest"))
           ans == Or(Get0(r, "answered"), List(<<>>))
           total == Or(Get0(r, "total"), Num(0))
           correct == Get0(r, "correct")
       IN  \/ ~Hashable(u)
           \/ ~IsStr(LastOf(r))
           \/ ~IsList(ans) /\ ~(IsNum(total) \/ IsBool(total))
           \/ Truthy(correct) /\ ~(IsNum(correct) \/ IsBool(correct))
           \/ /\ ~Truthy(correct)
              /\ \/ ~Iterable(ans)
                 \/ \E i \in 1..Len(Iter(ans)) : ~IsDict(Iter(ans)[i])

admin_users_raises(rs) == \E i \in 1..Len(rs) : users_session_raises(rs[i])

\* One turn of the loop: users.setdefault(u, {...}) and the four updates.
UsersStep(users, r) ==
    LET u == Or(Get0(r, "user"), Str("guest"))
        i == IndexOf(users, "user", u)
        old == IF i = 0
               THEN [user |-> u, sessions |-> 0, lastAt |-> "", answered |-> 0, correct |-> 0]
               ELSE users[i]
        new == [user |-> u,
                sessions |-> old.sessions + 1,
                lastAt |-> StrMax(old.lastAt, LastOf(r).s),
                answered |-> old.answered + UsersAnswered(r),
                correct |-> old.correct + UsersCorrect(r)]
    IN  IF i = 0 THEN Append(users, new) ELSE [users EXCEPT ![i] = new]

\* for r in res, over sessions lo..hi in order.
RECURSIVE UsersFold(_, _, _, _)
UsersFold(users, rs, lo, hi) ==
    IF lo > hi THEN users
    ELSE IF lo = hi THEN UsersStep(users, rs[lo])
    ELSE LET mid == (lo + hi) \div 2
             left == UsersFold(users, rs, lo, mid)
         IN  \* the left half is evaluated before the right half starts
             IF Len(left) >= 0 THEN UsersFold(left, rs, mid + 1, hi) ELSE left

UsersKey(x) == Codes(x.lastAt)

users_body(rs) ==
    LET rows == UsersFold(<<>>, rs, 1, Len(rs))
    IN  sorted(rows, [i \in 1..Len(rows) |-> UsersKey(rows[i])], TRUE)

admin_users ==
    LET rs == iter_results(log)
    IN  /\ res' = rs
        /\ resp' = IF admin_users_raises(rs) THEN Failed("users", Null)
                   ELSE Returned("users", 200, Null, users_body(rs))
        /\ UNCHANGED <<catalog, log, posts>>

(***************************************************************************)
(* GET /api/admin/summary                                                  *)
(***************************************************************************)
RecentCap == 100
SessionsCap == 100

\* (user in (None, "", "__all__")) or (r.get("user", "guest") == user)
match_user(user, r) ==
    \/ user \in {Null, Str(""), Str("__all__")}
    \/ Get(r, "user", Str("guest")) = user

\* qmap.get(qid, {})
QmapGet(qmap, qid) == IF qid \in DOMAIN qmap THEN qmap[qid] ELSE EmptyObj

\* An item whose unit and type come from the catalog first and from the
\* answer only when the catalog has none.
ItemCatalogFirst(r, a, qmap) ==
    LET qid == Get0(a, "id")
        qm == QmapGet(qmap, qid)
    IN  [user |-> Get(r, "user", Str("guest")),
         id |-> qid,
         unit |-> Or(Or(Get0(qm, "unit"), Get0(a, "unit")), Str("")),
         jp |-> Get0(qm, "jp"),
         en |-> Get0(qm, "en"),
         type |-> Or(Or(Get0(qm, "type"), Get0(a, "type")), Str("")),
         correct |-> Truthy(Get0(a, "correct")),
         userAnswer |-> Get0(a, "userAnswer"),
         at |-> Or(Or(Get0(a, "at"), Get0(r, "endedAt")), Get0(r, "receivedAt"))]

\* item = {...}: one flattened answer of session r.
Item(r, a, qmap) ==
    LET qid == Get0(a, "id")
        qm == QmapGet(qmap, qid)
    IN  [user |-> Get(r, "user", Str("guest")),
         id |-> qid,
         unit |-> Or(Or(Get0(a, "unit"), Get0(qm, "unit")), Str("")),
         jp |-> Get0(qm, "jp"),
         en |-> Get0(qm, "en"),
         type |-> Or(Or(Get0(a, "type"), Get0(qm, "type")), Str("")),
         correct |-> Truthy(Get0(a, "correct")),
         userAnswer |-> Get0(a, "userAnswer"),
         at |-> Or(Or(Get0(a, "at"), Get0(r, "endedAt")), Get0(r, "receivedAt"))]

\* str(x or "") as code points, for the values the search meets: a str, a
\* falsy value, a one-digit number.
PyStrCodes(x) ==
    IF ~Truthy(x) THEN <<>>
    ELSE IF IsStr(x) THEN Codes(x.s)
    ELSE <<48 + IntOf(x)>>

\* " ".join(str(x or "") for x in [id, jp, en, userAnswer]).lower()
Hay(item) ==
    LowerCodes(PyStrCodes(item.id) \o <<32>> \o PyStrCodes(item.jp) \o <<32>>
               \o PyStrCodes(item.en) \o <<32>> \o PyStrCodes(item.userAnswer))

\* The unit filter and the free-text filter let the item through.
Passes(item, unit, q) ==
    /\ ~(unit # "" /\ item.unit # Str(unit))
    /\ ~(q # "" /\ ~Contains(Hay(item), LowerCodes(Codes(q))))

\* A flattening that leaves out the answers whose id the catalog lacks.
RECURSIVE FlattenKnownOnly(_, _, _, _, _)
FlattenKnownOnly(r, ans, qmap, unit, q) ==
    IF ans = <<>> THEN <<>>
    ELSE LET item == Item(r, Head(ans), qmap)
         IN  (IF Passes(item, unit, q) /\ item.id \in DOMAIN qmap THEN <<item>> ELSE <<>>)
             \o FlattenKnownOnly(r, Tail(ans), qmap, unit, q)

\* for a in ans: ... answered_all.append(item), for one session.
RECURSIVE Flatten(_, _, _, _, _)
Flatten(r, ans, qmap, unit, q) ==
    IF ans = <<>> THEN <<>>
    ELSE LET item == Item(r, Head(ans), qmap)
         IN  (IF Passes(item, unit, q) THEN <<item>> ELSE <<>>)
             \o Flatten(r, Tail(ans), qmap, unit, q)

\* ans = (r.get("answered") or [])
AnswersOf(r) == Iter(Or(Get0(r, "answered"), List(<<>>)))

\* sessions.append({...})
SessionRow(r) ==
    [user |-> Get(r, "user", Str("guest")),
     endedAt |-> Get0(r, "endedAt"),
     total |-> Get(r, "total", Num(Len(AnswersOf(r)))),
     correct |-> Get(r, "correct", Num(CountCorrect(AnswersOf(r)))),
     accuracy |-> Get0(r, "accuracy"),
     mode |-> Or(Get0(r, "mode"), Str("normal")),
     qType |-> Get0(r, "qType"),
     setIndex |-> Get0(r, "setIndex"),
     seconds |-> Get(r, "seconds", Num(0))]

\* The for loop of admin_summary over sessions lo..hi: the rows of the
\* matching sessions ...
RECURSIVE SessionRows(_, _, _, _)
SessionRows(rs, user, lo, hi) ==
    IF lo > hi THEN <<>>
    ELSE IF lo = hi THEN (IF match_user(user, rs[lo]) THEN <<SessionRow(rs[lo])>> ELSE <<>>)
    ELSE LET mid == (lo + hi) \div 2
         IN  SessionRows(rs, user, lo, mid) \o SessionRows(rs, user, mid + 1, hi)

session_rows(rs, user) == SessionRows(rs, user, 1, Len(rs))

\* ... and their flattened, filtered answers.
RECURSIVE AnsweredAll(_, _, _, _, _, _, _)
AnsweredAll(rs, qmap, user, unit, q, lo, hi) ==
    IF lo > hi THEN <<>>
    ELSE IF lo = hi
    THEN (IF match_user(user, rs[lo])
          THEN Flatten(rs[lo], AnswersOf(rs[lo]), qmap, unit, q)
          ELSE <<>>)
    ELSE LET mid == (lo + hi) \div 2
         IN  AnsweredAll(rs, qmap, user, unit, q, lo, mid)
             \o AnsweredAll(rs, qmap, user, unit, q, mid + 1, hi)

answered_all(rs, qmap, user, unit, q) == AnsweredAll(rs, qmap, user, unit, q, 1, Len(rs))

Totals(sessions, answered) ==
    [sessions |-> Len(sessions),
     answered |-> Len(answered),
     correct |-> Cardinality({i \in 1..Len(answered) : answered[i].correct})]

\* by_unit.setdefault(u, {...}) and the counts, for one answer.
ByUnitStep(rows, a) ==
    LET u == Or(a.unit, Str(""))
        i == IndexOf(rows, "unit", u)
        old == IF i = 0 THEN [unit |-> u, answered |-> 0, correct |-> 0, wrong |-> 0]
               ELSE rows[i]
        new == [unit |-> u,
                answered |-> old.answered + 1,
                correct |-> old.correct + (IF a.correct THEN 1 ELSE 0),
                wrong |-> old.wrong + (IF a.correct THEN 0 ELSE 1)]
    IN  IF i = 0 THEN Append(rows, new) ELSE [rows EXCEPT ![i] = new]

\* for a in answered_all, over answers lo..hi in order.
RECURSIVE ByUnitFold(_, _, _, _)
ByUnitFold(rows, answered, lo, hi) ==
    IF lo > hi THEN rows
    ELSE IF lo = hi THEN ByUnitStep(rows, answered[lo])
    ELSE LET mid == (lo + hi) \div 2
             left == ByUnitFold(rows, answered, lo, mid)
         IN  \* the left half is evaluated before the right half starts
             IF Len(left) >= 0 THEN ByUnitFold(left, answered, mid + 1, hi) ELSE left

\* key=lambda x: (-x["answered"], x["unit"])
ByUnitKey(x) == <<-x.answered>> \o KeyOf(x.unit)

by_unit(answered) ==
    LET rows == ByUnitFold(<<>>, answered, 1, Len(answered))
    IN  sorted(rows, [i \in 1..Len(rows) |-> ByUnitKey(rows[i])], FALSE)

\* by_q.setdefault(qid, {...}) and the counts, for one answer.
ByQStep(rows, a) ==
    LET qid == Or(a.id, Str("(no-id)"))
        i == IndexOf(rows, "id", qid)
        old == IF i = 0
               THEN [id |-> qid, unit |-> a.unit, jp |-> a.jp, en |-> a.en,
                     answered |-> 0, wrong |-> 0, lastAt |-> ""]
               ELSE rows[i]
        new == [old EXCEPT !.answered = old.answered + 1,
                           !.wrong = old.wrong + (IF a.correct THEN 0 ELSE 1),
                           !.lastAt = StrMax(old.lastAt, Or(a.at, Str("")).s)]
    IN  IF i = 0 THEN Append(rows, new) ELSE [rows EXCEPT ![i] = new]

\* for a in answered_all, over answers lo..hi in order.
RECURSIVE ByQFold(_, _, _, _)
ByQFold(rows, answered, lo, hi) ==
    IF lo > hi THEN rows
    ELSE IF lo = hi THEN ByQStep(rows, answered[lo])
    ELSE LET mid == (lo + hi) \div 2
             left == ByQFold(rows, answered, lo, mid)
         IN  \* the left half is evaluated before the right half starts
             IF Len(left) >= 0 THEN ByQFold(left, answered, mid + 1, hi) ELSE left

\* A key that ranks by the wrong count alone.
TopMissedKeyWrongOnly(x) == <<x.wrong>>

\* key=lambda x: (x["wrong"], x["answered"])
TopMissedKey(x) == <<x.wrong, x.answered>>

top_missed(answered) ==
    LET rows == ByQFold(<<>>, answered, 1, Len(answered))
    IN  sorted(rows, [i \in 1..Len(rows) |-> TopMissedKey(rows[i])], TRUE)

\* key=lambda x: x.get("at") or ""
RecentKey(x) == KeyOf(Or(x.at, Str("")))

\* The first answers of the log instead of the most recent ones.
RecentUnsorted(answered) == Take(answered, RecentCap)

\* sorted(answered_all, key=..., reverse=True)[:100]
recent(answered) ==
    Take(sorted(answered, [i \in 1..Len(answered) |-> RecentKey(answered[i])], TRUE), RecentCap)

\* key=lambda x: x["endedAt"] or ""
SessionsKey(x) == KeyOf(Or(x.endedAt, Str("")))

\* sorted(sessions, key=..., reverse=True)[:100]
recent_sessions(sessions) ==
    Take(sorted(sessions, [i \in 1..Len(sessions) |-> SessionsKey(sessions[i])], TRUE), SessionsCap)

\* The loop of admin_summary raises on a matching session r.
summary_session_raises(r) ==
    LET ans == Or(Get0(r, "answered"), List(<<>>))
    IN  \/ ~Iterable(ans)
        \/ \E i \in 1..Len(Iter(ans)) :
              \/ ~IsDict(Iter(ans)[i])
              \/ ~Hashable(Get0(Iter(ans)[i], "id"))

\* The tables after the loop raise: a unit that cannot be a dict key, two
\* units or two end timestamps that `<` cannot compare, an answer time
\* that max() cannot compare with a str.
summary_tables_raise(sessions, answered) ==
    \/ \E i \in 1..Len(answered) :
          \/ ~Hashable(answered[i].unit)
          \/ ~IsStr(Or(answered[i].at, Str("")))
    \/ LET rows == ByUnitFold(<<>>, answered, 1, Len(answered))
       IN  \E i, j \in 1..Len(rows) :
              rows[i].answered = rows[j].answered /\ ~Comparable(rows[i].unit, rows[j].unit)
    \/ \E i, j \in 1..Len(sessions) :
          i # j /\ ~Comparable(Or(sessions[i].endedAt, Str("")), Or(sessions[j].endedAt, Str("")))

\* The loop over the sessions raises: a logged value that is no dict, or
\* a matching session whose answers cannot be walked.
summary_loop_raises(rs, user) ==
    \/ \E i \in 1..Len(rs) : ~IsDict(rs[i])
    \/ \E i \in 1..Len(rs) : match_user(user, rs[i]) /\ summary_session_raises(rs[i])

summary_body(sessions, answered) ==
    [totals |-> Totals(sessions, answered),
     byUnit |-> by_unit(answered),
     topMissed |-> top_missed(answered),
     recentAnswers |-> recent(answered),
     sessions |-> recent_sessions(sessions)]

admin_summary(user, unit, q) ==
    LET req == [user |-> user, unit |-> unit, q |-> q]
        qmap == load_questions_map(catalog)
        rs == iter_results(log)
        sessions == session_rows(rs, user)
        answered == answered_all(rs, qmap, user, unit, q)
    IN  IF load_questions_map_raises(catalog)
        THEN /\ resp' = Failed("summary", req)
             /\ UNCHANGED <<catalog, log, res, posts>>
        ELSE /\ res' = rs
             /\ resp' = IF \/ summary_loop_raises(rs, user)
                           \/ summary_tables_raise(sessions, answered)
                        THEN Failed("summary", req)
                        ELSE Returned("summary", 200, req, summary_body(sessions, answered))
             /\ UNCHANGED <<catalog, log, posts>>

(***************************************************************************)
(* The catalog, the sessions the front end submits and the requests of the *)
(* dashboard.                                                              *)
(***************************************************************************)
FullCatalog ==
    CatalogOf(Obj([
        questions |-> List(<<
            Obj([id |-> Str("q1"), jp |-> Str("inu"), en |-> Str("dog"), unit |-> Str("animals")]),
            Obj([id |-> Str("q2"), jp |-> Str("neko"), en |-> Str("cat")]),
            Obj([jp |-> Str("tori")]) >>),
        vocab |-> List(<<
            Obj([id |-> Str("v1"), jp |-> Str("tori"), en |-> Str("x"), unit |-> Str("food")]),
            Obj([id |-> Str("q2"), jp |-> Str("neko"), en |-> Str("cat"), unit |-> Str("animals")]) >>)
    ]))

Catalogs == {NoCatalog, FullCatalog}

Times == {"t1", "t2"}

SessionA ==
    Obj([user |-> Str("alice"), endedAt |-> Str("t2"), total |-> Num(2), correct |-> Num(1),
         answered |-> List(<<
             Obj([id |-> Str("q1"), correct |-> Bool(TRUE)]),
             Obj([id |-> Str("v1"), correct |-> Bool(FALSE), userAnswer |-> Str("Dog"),
                  at |-> Str("t10")]) >>)])

SessionB ==
    Obj([answered |-> List(<<
             Obj([id |-> Str("zz"), correct |-> Bool(FALSE), jp |-> Str("tori")]),
             Obj([correct |-> Bool(FALSE), unit |-> Str("food")]) >>)])

SessionC == Obj([user |-> Null, total |-> Num(5)])

SessionD ==
    Obj([user |-> Str(""), endedAt |-> Str("t10"),
         answered |-> List(<<
             Obj([id |-> Str("q1"), unit |-> Str("food"), correct |-> Bool(FALSE)]),
             Obj([id |-> Str(""), correct |-> Bool(TRUE)]) >>)])

SessionE ==
    Obj([user |-> Str("guest"),
         answered |-> List(<<
             Obj([id |-> Str("q2"), type |-> Str("reorder"), correct |-> Bool(FALSE)]),
             Obj([id |-> Str("q2"), correct |-> Bool(TRUE)]) >>)])

SessionF == Obj([user |-> Str("alice"), endedAt |-> Str("t1"), answered |-> List(<<>>)])

\* What the front end posts; the other sessions are in the log already.
SessionBodies == {SessionA, SessionB, SessionD}

\* A log that was edited or damaged outside the program: a line that is
\* not JSON and a blank line among the sessions.
DamagedLog ==
    [exists |-> TRUE,
     lines |-> << JunkLine,
                  PaddedLine(SetItem(SessionC, "receivedAt", Str("t1"))),
                  BlankLine,
                  JsonLine(SetItem(SessionE, "receivedAt", Str("t2"))),
                  JunkLine,
                  JsonLine(SetItem(SessionF, "receivedAt", Str("t2"))) >>]

Logs == {NoFile, DamagedLog}

Request(user, unit, q) == [user |-> user, unit |-> unit, q |-> q]

SummaryRequests ==
    { Request(Str("__all__"), "", ""),
      Request(Str("guest"), "", ""),
      Request(Str("alice"), "animals", ""),
      Request(Null, "", "DO"),
      Request(Str(""), "food", "") }

NoResponse == [op |-> "none", status |-> 0, req |-> Null, body |-> Null]

Init ==
    /\ catalog \in Catalogs
    /\ log \in Logs
    /\ res = <<>>
    /\ resp = NoResponse
    /\ posts = 0

PostSession == \E body \in SessionBodies, now \in Times : save_results(body, now)

ListUsers == admin_users

Summary == \E req \in SummaryRequests : admin_summary(req.user, req.unit, req.q)

Next == PostSession \/ ListUsers \/ Summary

Spec == Init /\ [][Next]_vars

\* Sessions alone never make a handler fail.
NoFailure == resp.status # 500

(***************************************************************************)
(* What the properties below speak of, stated on the files themselves and  *)
(* not through the handlers.                                               *)
(***************************************************************************)
IsSummary == resp.op = "summary" /\ resp.status = 200
IsUsers == resp.op = "users" /\ resp.status = 200

\* The values of the well-formed lines of the log, in file order.
LoggedDocs ==
    LET good == SelectSeq(log.lines, LAMBDA line : line.kind = "json")
    IN  [i \in 1..Len(good) |-> good[i].doc]

\* The answer list of a logged session, empty when it has none.
AnswerList(r) ==
    IF "answered" \in DOMAIN r.o /\ IsList(r.o.answered) THEN r.o.answered.l ELSE <<>>

\* Every answer of the sessions docs: <<i, j>> is answer j of session i.
AnswersIn(docs) ==
    UNION {{<<i, j>> : j \in 1..Len(AnswerList(docs[i]))} : i \in 1..Len(docs)}

\* The entries of the catalog file in reading order: questions, then vocab.
CatalogEntries ==
    IF ~catalog.exists \/ ~catalog.ok THEN <<>>
    ELSE LET qs == Get(catalog.doc, "questions", List(<<>>)).l
             vs == Get(catalog.doc, "vocab", List(<<>>)).l
         IN  [i \in 1..Len(qs) |-> [entry |-> qs[i], type |-> Str("reorder")]]
             \o [i \in 1..Len(vs) |-> [entry |-> vs[i], type |-> Str("vocab")]]

\* The entries cat have one for this id.
InCatalog(cat, id) ==
    Truthy(id) /\ \E i \in 1..Len(cat) : Get0(cat[i].entry, "id") = id

\* The entry cat gives for an id: the last one read.
CatalogLookup(cat, id) ==
    LET at == {i \in 1..Len(cat) : Get0(cat[i].entry, "id") = id}
        last == CHOOSE i \in at : \A j \in at : j <= i
    IN  cat[last]

CatalogField(cat, id, field) ==
    IF InCatalog(cat, id) THEN Get0(CatalogLookup(cat, id).entry, field) ELSE Null

CatalogType(cat, id) == IF InCatalog(cat, id) THEN CatalogLookup(cat, id).type ELSE Null

\* The value a display field has when the answer's own value comes first
\* and the catalog's second.
AnswerFirst(own, cat) == IF Truthy(own) THEN own ELSE IF Truthy(cat) THEN cat ELSE Str("")

\* The user field of a session, "guest" when it has none.
UserField(r) == IF "user" \in DOMAIN r.o THEN r.o.user ELSE Str("guest")

\* The flattened answer the summary is to show for answer p = <<i, j>>.
Expected(docs, cat, p) ==
    LET r == docs[p[1]]
        a == AnswerList(r)[p[2]]
        id == Get0(a, "id")
    IN  [user |-> UserField(r),
         id |-> id,
         unit |-> AnswerFirst(Get0(a, "unit"), CatalogField(cat, id, "unit")),
         jp |-> CatalogField(cat, id, "jp"),
         en |-> CatalogField(cat, id, "en"),
         type |-> AnswerFirst(Get0(a, "type"), CatalogType(cat, id)),
         correct |-> Truthy(Get0(a, "correct")),
         userAnswer |-> Get0(a, "userAnswer"),
         at |-> IF Truthy(Get0(a, "at")) THEN Get0(a, "at")
                ELSE IF Truthy(Get0(r, "endedAt")) THEN Get0(r, "endedAt")
                ELSE Get0(r, "receivedAt")]

\* The flattened answers of all the sessions docs, by position.
ExpectedAll(docs, cat) == [p \in AnswersIn(docs) |-> Expected(docs, cat, p)]

\* The sessions the request selects: no user, the empty user and "__all__"
\* select every session, a name the sessions whose user field (absent:
\* "guest") is that name.
SelectedSessions(docs, req) ==
    {i \in 1..Len(docs) :
        \/ req.user \in {Null, Str(""), Str("__all__")}
        \/ UserField(docs[i]) = req.user}

\* The answers the request's three filters let through; exp are the
\* flattened answers by position.
Filtered(docs, exp, req) ==
    {p \in DOMAIN exp :
        /\ p[1] \in SelectedSessions(docs, req)
        /\ req.unit = "" \/ exp[p].unit = Str(req.unit)
        /\ req.q = "" \/ Contains(Hay(exp[p]), LowerCodes(Codes(req.q)))}

Unfiltered(req) == req.user = Str("__all__") /\ req.unit = "" /\ req.q = ""

C2_EveryAnswerCounted ==
    (IsSummary /\ Unfiltered(resp.req)) =>
        LET rows == resp.body.byUnit
            exp == ExpectedAll(LoggedDocs, CatalogEntries)
        IN  /\ resp.body.totals.answered = Cardinality(DOMAIN exp)
            /\ \A i, j \in 1..Len(rows) : i # j => rows[i].unit # rows[j].unit
            /\ \A p \in DOMAIN exp : \E i \in 1..Len(rows) : rows[i].unit = exp[p].unit
            /\ \A i \in 1..Len(rows) :
                  rows[i].answered = Cardinality({p \in DOMAIN exp : exp[p].unit = rows[i].unit})

\* An unfiltered summary over answers with a catalogued id, with an id the
\* catalog lacks and with no id.
C2_Witness ==
    LET cat == CatalogEntries
        exp == ExpectedAll(LoggedDocs, cat)
    IN  /\ IsSummary /\ Unfiltered(resp.req)
        /\ catalog.exists
        /\ \E p \in DOMAIN exp : InCatalog(cat, exp[p].id)
        /\ \E p \in DOMAIN exp : Truthy(exp[p].id) /\ ~InCatalog(cat, exp[p].id)
        /\ \E p \in DOMAIN exp : exp[p].id = Null

\* The display fields of an answer as C3 states them: the catalog's value
\* first, the answer's own value when the catalog gives none.
CatalogFirst(own, cat) == IF Truthy(cat) THEN cat ELSE own

ClaimedDisplay(docs, cat, p) ==
    LET a == AnswerList(docs[p[1]])[p[2]]
        id == Get0(a, "id")
    IN  [id |-> id,
         unit |-> Or(CatalogFirst(Get0(a, "unit"), CatalogField(cat, id, "unit")), Str("")),
         jp |-> CatalogFirst(Get0(a, "jp"), CatalogField(cat, id, "jp")),
         en |-> CatalogFirst(Get0(a, "en"), CatalogField(cat, id, "en")),
         type |-> Or(CatalogFirst(Get0(a, "type"), CatalogType(cat, id)), Str(""))]

Display(item) ==
    [id |-> item.id, unit |-> item.unit, jp |-> item.jp, en |-> item.en, type |-> item.type]

\* C3 as stated: every flattened answer shows the catalog's jp, en, unit and
\* type for its id, and the answer's own value only where the catalog gives
\* none.
C3_CatalogFirst ==
    IsSummary =>
        LET docs == LoggedDocs
            cat == CatalogEntries
        IN  \A k \in 1..Len(resp.body.recentAnswers) :
                \E p \in AnswersIn(docs) :
                    Display(resp.body.recentAnswers[k]) = ClaimedDisplay(docs, cat, p)

\* The answer was submitted with only id and correct, and the catalog has
\* its id.
BareCatalogued(docs, cat, p) ==
    LET a == AnswerList(docs[p[1]])[p[2]]
    IN  DOMAIN a.o = {"id", "correct"} /\ InCatalog(cat, Get0(a, "id"))

\* C3 amended: unit and type are the answer's own value when it has a
\* non-empty one, else the catalog's for the answer's id, else ""; jp and en
\* are the catalog's alone (null when the catalog has no entry); so an answer
\* submitted with only id and correct shows the catalog's jp, en and unit.
C3_AnswerFirst ==
    IsSummary =>
        LET answers == resp.body.recentAnswers
            docs == LoggedDocs
            cat == CatalogEntries
            exp == ExpectedAll(docs, cat)
            F == Filtered(docs, exp, resp.req)
        IN  /\ \A k \in 1..Len(answers) : \E p \in F : answers[k] = exp[p]
            /\ Cardinality(F) <= RecentCap =>
                  \A p \in F :
                      BareCatalogued(docs, cat, p) =>
                          \E k \in 1..Len(answers) :
                              /\ answers[k].id = exp[p].id
                              /\ answers[k].jp = CatalogField(cat, exp[p].id, "jp")
                              /\ answers[k].en = CatalogField(cat, exp[p].id, "en")
                              /\ answers[k].unit = Or(CatalogField(cat, exp[p].id, "unit"), Str(""))
                              /\ answers[k].type = CatalogType(cat, exp[p].id)

\* A summary that shows an answer submitted with only id and correct under
\* the catalog's texts, and an answer whose own unit replaced the catalog's.
C3_Witness ==
    LET docs == LoggedDocs
        cat == CatalogEntries
        exp == ExpectedAll(docs, cat)
    IN  /\ IsSummary
        /\ \E p \in Filtered(docs, exp, resp.req) :
              BareCatalogued(docs, cat, p) /\ exp[p].jp = Str("inu")
        /\ \E k \in 1..Len(resp.body.recentAnswers) :
              LET item == resp.body.recentAnswers[k]
              IN  /\ InCatalog(cat, item.id)
                  /\ Truthy(CatalogField(cat, item.id, "unit"))
                  /\ item.unit # CatalogField(cat, item.id, "unit")

\* The row key of a flattened answer in the most-missed table.
MissedKey(item) == IF Truthy(item.id) THEN item.id ELSE Str("(no-id)")

\* C7: topMissed has one row per question id ("(no-id)" for the answers
\* without one); a row's answered and wrong are the numbers of filtered
\* answers, and of incorrect ones, with that id; rows are in descending
\* order of wrong, and of answered among rows of equal wrong.
C7_TopMissedOrder ==
    IsSummary =>
        LET rows == resp.body.topMissed
            docs == LoggedDocs
            exp == ExpectedAll(docs, CatalogEntries)
            F == Filtered(docs, exp, resp.req)
        IN  /\ \A i, j \in 1..Len(rows) :
                  i < j => /\ rows[i].id # rows[j].id
                           /\ rows[i].wrong >= rows[j].wrong
                           /\ rows[i].wrong = rows[j].wrong => rows[i].answered >= rows[j].answered
            /\ \A p \in F : \E i \in 1..Len(rows) : rows[i].id = MissedKey(exp[p])
            /\ \A i \in 1..Len(rows) :
                  /\ rows[i].answered = Cardinality({p \in F : MissedKey(exp[p]) = rows[i].id})
                  /\ rows[i].wrong =
                        Cardinality({p \in F : MissedKey(exp[p]) = rows[i].id /\ ~exp[p].correct})
                  /\ rows[i].answered > 0

\* A table where the answered count decides between two rows of equal
\* wrong, and with a row for the answers without an id.
C7_Witness ==
    /\ IsSummary
    /\ \E i, j \in 1..Len(resp.body.topMissed) :
          /\ i < j
          /\ resp.body.topMissed[i].wrong = resp.body.topMissed[j].wrong
          /\ resp.body.topMissed[i].answered > resp.body.topMissed[j].answered
    /\ \E i \in 1..Len(resp.body.topMissed) : resp.body.topMissed[i].id = Str("(no-id)")

(***************************************************************************)
(* Properties of the user listing                                          *)
(***************************************************************************)
RECURSIVE SumSeq(_)
SumSeq(xs) == IF xs = <<>> THEN 0 ELSE Head(xs) + SumSeq(Tail(xs))

\* What C9 has a session add to its user's answered count.
ClaimedAnswered(r) ==
    IF "answered" \in DOMAIN r.o /\ IsList(r.o.answered) THEN Len(r.o.answered.l)
    ELSE IntOf(Or(Get0(r, "total"), Num(0)))

\* The user the listing files a session under.
ListedUser(r) == IF Truthy(Get0(r, "user")) THEN Get0(r, "user") ELSE Str("guest")

\* C9: a user's answered count is the sum, over the user's sessions, of the
\* length of the answer list when the session has one and of the declared
\* total when it has none.
C9_AnsweredFallsBackToTotal ==
    IsUsers =>
        \A k \in 1..Len(resp.body) :
            LET mine == SelectSeq(LoggedDocs, LAMBDA r : ListedUser(r) = resp.body[k].user)
            IN  resp.body[k].answered = SumSeq([i \in 1..Len(mine) |-> ClaimedAnswered(mine[i])])

\* C10: for every user of the listing, the summary filtered on that user
\* reports as many sessions as the listing does.
C10_SameAttribution ==
    (IsSummary /\ IsStr(resp.req.user)) =>
        LET listing == users_body(iter_results(log))
        IN  \A k \in 1..Len(listing) :
                listing[k].user = resp.req.user =>
                    resp.body.totals.sessions = listing[k].sessions

(***************************************************************************)
(* A long log: the caps of recentAnswers and sessions                      *)
(***************************************************************************)
BigLen == 99

\* The i-th session of a long log: one answer each, the users, end
\* timestamps (one in four absent) and receipt timestamps varying with i.
BigSession(i) ==
    LET base == [user |-> Str(IF i % 2 = 0 THEN "alice" ELSE "bob"),
                 answered |-> List(<<
                     Obj([id |-> Str(IF i % 3 = 0 THEN "q1" ELSE "v1"),
                          correct |-> Bool(i % 2 = 0)]) >>),
                 receivedAt |-> Str(IF i % 5 = 0 THEN "t2" ELSE "t1")]
        ended == Str(IF i % 4 = 1 THEN "t1" ELSE IF i % 4 = 2 THEN "t10" ELSE "t2")
    IN  IF i % 4 = 0 THEN Obj(base) ELSE SetItem(Obj(base), "endedAt", ended)

BigLog(n) == [exists |-> TRUE, lines |-> [i \in 1..n |-> JsonLine(BigSession(i))]]

BigBodies == {SessionA, SessionD}

BigRequests ==
    { Request(Str("__all__"), "", ""),
      Request(Null, "", "DO"),
      Request(Str("bob"), "", "") }

InitBig ==
    /\ catalog \in Catalogs
    /\ log \in {BigLog(BigLen - 1), BigLog(BigLen)}
    /\ res = <<>>
    /\ resp = NoResponse
    /\ posts = 0

PostBig == \E body \in BigBodies : save_results(body, "t2")

SummaryBig == \E req \in BigRequests : admin_summary(req.user, req.unit, req.q)

NextBig == PostBig \/ ListUsers \/ SummaryBig

SpecBig == InitBig /\ [][NextBig]_vars

Min(a, b) == IF a < b THEN a ELSE b

\* C8: recentAnswers and sessions hold at most 100 entries (all of them
\* when there are fewer), in descending order of timestamp, an absent
\* timestamp counting as ""; an entry is left out only when every entry
\* kept has a timestamp at least as great.
C8_CappedMostRecent ==
    IsSummary =>
        LET answers == resp.body.recentAnswers
            rows == resp.body.sessions
            docs == LoggedDocs
            exp == ExpectedAll(docs, CatalogEntries)
            F == Filtered(docs, exp, resp.req)
            S == SelectedSessions(docs, resp.req)
            atOf == [p \in F |-> KeyOf(Or(exp[p].at, Str("")))]
            endOf == [i \in S |-> KeyOf(Or(Get0(docs[i], "endedAt"), Str("")))]
            atKept == [k \in 1..Len(answers) |-> KeyOf(Or(answers[k].at, Str("")))]
            endKept == [k \in 1..Len(rows) |-> KeyOf(Or(rows[k].endedAt, Str("")))]
        IN  /\ Len(answers) = Min(RecentCap, Cardinality(F))
            /\ Len(rows) = Min(SessionsCap, Cardinality(S))
            /\ \A k \in 1..(Len(answers) - 1) : LexLeq(atKept[k + 1], atKept[k])
            /\ \A k \in 1..(Len(rows) - 1) : LexLeq(endKept[k + 1], endKept[k])
            /\ \A t \in {atOf[p] : p \in F} :
                  LET kept == Cardinality({k \in 1..Len(answers) : atKept[k] = t})
                      all == Cardinality({p \in F : atOf[p] = t})
                  IN  /\ kept <= all
                      /\ kept < all => \A k \in 1..Len(answers) : LexLeq(t, atKept[k])
            /\ \A t \in {endOf[i] : i \in S} :
                  LET kept == Cardinality({k \in 1..Len(rows) : endKept[k] = t})
                      all == Cardinality({i \in S : endOf[i] = t})
                  IN  /\ kept <= all
                      /\ kept < all => \A k \in 1..Len(rows) : LexLeq(t, endKept[k])

\* A summary of more than 100 sessions and more than 100 answers of
\* different timestamps, cut to 100 of each.
C8_Witness ==
    /\ IsSummary
    /\ resp.body.totals.answered > RecentCap
    /\ resp.body.totals.sessions > SessionsCap
    /\ Len(resp.body.recentAnswers) = RecentCap
    /\ Len(resp.body.sessions) = SessionsCap
    /\ resp.body.recentAnswers[1].at # resp.body.recentAnswers[RecentCap].at
    /\ resp.body.sessions[1].endedAt # resp.body.sessions[SessionsCap].endedAt

(***************************************************************************)
(* Files and payloads of any shape                                         *)
(***************************************************************************)
AnyCatalogs ==
    { NoCatalog, JunkCatalog, FullCatalog,
      CatalogOf(List(<<>>)),
      CatalogOf(Obj([vocab |-> Null])),
      CatalogOf(Obj([questions |-> List(<<Num(1)>>)])) }

AnyLogs == { NoFile, [exists |-> TRUE, lines |-> <<JunkLine, JsonLine(List(<<Num(1)>>))>>] }

AnyBodies ==
    { BadBody, Null, List(<<>>), List(<<Num(1)>>), Str("x"), Num(5), EmptyObj, SessionA,
      Obj([answered |-> Num(5)]),
      Obj([answered |-> List(<<Num(1)>>)]),
      Obj([user |-> List(<<Str("x")>>)]),
      Obj([endedAt |-> Num(5)]) }

AnyRequests == { Request(Str("__all__"), "", ""), Request(Str("guest"), "", "") }

InitAny ==
    /\ catalog \in AnyCatalogs
    /\ log \in AnyLogs
    /\ res = <<>>
    /\ resp = NoResponse
    /\ posts = 0

PostAny == \E body \in AnyBodies, now \in Times : save_results(body, now)

SummaryAny == \E req \in AnyRequests : admin_summary(req.user, req.unit, req.q)

NextAny == PostAny \/ ListUsers \/ SummaryAny

SpecAny == InitAny /\ [][NextAny]_vars

\* C5: whatever the catalog file and the log hold, the user listing and the
\* summary return a result and never fail.
C5_AdminReadsNeverFail ==
    resp.op \in {"users", "summary"} => resp.status = 200

\* C6: a submission of any shape returns 201 and stores the payload with
\* the receivedAt field added.
C6_AnyPayloadAccepted ==
    resp.op = "post" =>
        /\ resp.status = 201
        /\ Len(log.lines) > 0
        /\ IsDict(log.lines[Len(log.lines)].doc)
        /\ "receivedAt" \in DOMAIN log.lines[Len(log.lines)].doc.o
        /\ IsDict(resp.req) =>
              \A k \in DOMAIN resp.req.o \ {"receivedAt"} :
                  /\ k \in DOMAIN log.lines[Len(log.lines)].doc.o
                  /\ log.lines[Len(log.lines)].doc.o[k] = resp.req.o[k]

====
